---- MODULE Spec2Model ----
(***************************************************************************)
(* Tabu-search optimiser for the two-dimensional knapsack problem.         *)
(*                                                                         *)
(* An Item is a record [name, value, weight, volume]; Item.__eq__ compares *)
(* the four fields, which is record equality here.  A Movement is a record *)
(* [add_items, remove_items] of two item lists; Movement.__eq__ compares   *)
(* the two lists element by element, which is equality of sequences.  A    *)
(* Knapsack is a record of the fields its mutators touch.                  *)
(***************************************************************************)
EXTENDS Integers, Sequences, FiniteSets, TLC

VARIABLES
    knapsack,               \* the Knapsack object: weight, volume, value, items, all_items
    tabu_list,              \* knapsack.tabu_list
    tabu_size,              \* knapsack.tabu_list.size
    appended,               \* every element handed to tabu_list.append so far, in order
    pc,                     \* where the program is: idle, tabu_search, searching, ...
    neighborhood_function,  \* the generator handed to optimize
    sorted_moves,           \* TabuSearch.__call__: the ranked, filtered candidates
    best_solution,          \* TabuSearch.__call__: the best value recorded
    best_solution_items,    \* TabuSearch.__call__: the items recorded with it
    iter_counter,           \* TabuSearch.iter_counter
    initial_value,          \* knapsack.initial_value
    started_empty,          \* optimize was called on a Knapsack with nothing selected
    universe,               \* the set of items the Knapsack was constructed with
    live_max,               \* the largest knapsack.value seen since the search began
    ga,                     \* genetic_algorithm_neighborhood: its local variables
    last                    \* the last call or step, with the state before it

kvars == <<knapsack, universe>>
tvars == <<tabu_size, appended>>
dvars == <<tabu_list, tvars, started_empty, neighborhood_function, sorted_moves, best_solution,
           best_solution_items, iter_counter, initial_value, live_max>>
vars == <<knapsack, tabu_list, tabu_size, appended, started_empty, pc, neighborhood_function, sorted_moves, best_solution,
          best_solution_items, iter_counter, initial_value, universe, live_max, ga, last>>

-----------------------------------------------------------------------------
(* Bounds of the model *)

\* longest add_items / remove_items list of a Movement handed to execute_movement
MaxMoveLen == 2

\* iterations of the search loop before the time budget is certainly spent
MaxIter == 6

\* the same, when the generator is genetic_algorithm_neighborhood
MaxIterGA == 3

\* TabuList(size)
TabuSize == 4

\* largest TabuList(size) and longest run of append calls on a TabuList of its own
MaxTabuSize == 3
MaxAppends == 4

\* genetic_algorithm_neighborhood(knapsack, population_size, generations)
PopulationSize == 2
Generations == 1

-----------------------------------------------------------------------------
(* Item, lists *)

Item(n, val, w, v) == [name |-> n, value |-> val, weight |-> w, volume |-> v]

\* `x in list`: some element equal to x
Contains(list, x) == \E i \in 1..Len(list) : list[i] = x

\* list.remove(x): drops the first element equal to x
RECURSIVE ListRemove(_, _)
ListRemove(list, x) ==
    IF list = <<>> THEN <<>>
    ELSE IF Head(list) = x THEN Tail(list)
    ELSE <<Head(list)>> \o ListRemove(Tail(list), x)

RECURSIVE SumValue(_)
SumValue(list) == IF list = <<>> THEN 0 ELSE Head(list).value + SumValue(Tail(list))

RECURSIVE SumWeight(_)
SumWeight(list) == IF list = <<>> THEN 0 ELSE Head(list).weight + SumWeight(Tail(list))

RECURSIVE SumVolume(_)
SumVolume(list) == IF list = <<>> THEN 0 ELSE Head(list).volume + SumVolume(Tail(list))

ToSet(list) == {list[i] : i \in 1..Len(list)}

BoundedSeq(S, n) == UNION {[1..m -> S] : m \in 0..n}

-----------------------------------------------------------------------------
(* Movement *)

Movement(adds, removes) == [add_items |-> adds, remove_items |-> removes]

\* movement_avaliation, the removed items not counted
movement_avaliation_adds_only(m) == SumValue(m.add_items)

movement_avaliation(m) == SumValue(m.add_items) - SumValue(m.remove_items)

\* reverse, the added items not taken out again
reverse_adds_only(m) == Movement(m.remove_items, <<>>)

reverse(m) == Movement(m.remove_items, m.add_items)

-----------------------------------------------------------------------------
(* Knapsack *)

Knapsack(w, v, all) ==
    [weight |-> w, initial_weight |-> w, volume |-> v, initial_volume |-> v,
     value |-> 0, all_items |-> all, items |-> <<>>]

\* Knapsack.__contains__
InKnapsack(k, item) == Contains(k.items, item)

\* can_add_item, the volume not looked at
can_add_item_weight_only(k, item) ==
    k.weight >= item.weight /\ ~Contains(k.items, item)

can_add_item(k, item) ==
    k.weight >= item.weight /\ k.volume >= item.volume /\ ~Contains(k.items, item)

cleanup_all_items(k) ==
    [k EXCEPT !.all_items = SelectSeq(k.all_items, LAMBDA i : ~Contains(k.items, i))]

\* the result of a mutator: what it returns and the Knapsack it leaves
Ret(ok, k) == [ok |-> ok, k |-> k]

\* add_item, the item left in all_items
add_item_keeps_available(k, item) ==
    IF can_add_item(k, item)
    THEN Ret(TRUE, [k EXCEPT !.items = Append(@, item),
                             !.weight = @ - item.weight,
                             !.volume = @ - item.volume,
                             !.value = @ + item.value])
    ELSE Ret(FALSE, k)

\* add_item, admitting an item that is already selected
add_item_no_membership(k, item) ==
    IF k.weight >= item.weight /\ k.volume >= item.volume
    THEN Ret(TRUE, [k EXCEPT !.items = Append(@, item),
                             !.weight = @ - item.weight,
                             !.volume = @ - item.volume,
                             !.value = @ + item.value,
                             !.all_items = SelectSeq(@, LAMBDA i : i # item)])
    ELSE Ret(FALSE, k)

\* add_item, the volume left as it was
add_item_volume_drift(k, item) ==
    IF can_add_item(k, item)
    THEN Ret(TRUE, [k EXCEPT !.items = Append(@, item),
                             !.weight = @ - item.weight,
                             !.value = @ + item.value,
                             !.all_items = SelectSeq(@, LAMBDA i : i # item)])
    ELSE Ret(FALSE, k)

add_item(k, item) ==
    IF can_add_item(k, item)
    THEN IF Contains(k.items, item)
         THEN Ret(FALSE, k)
         ELSE Ret(TRUE, [k EXCEPT !.items = Append(@, item),
                                  !.weight = @ - item.weight,
                                  !.volume = @ - item.volume,
                                  !.value = @ + item.value,
                                  !.all_items = SelectSeq(@, LAMBDA i : i # item)])
    ELSE Ret(FALSE, k)

\* remove_item, the weight given back also when the item is not selected
remove_item_refunds_absent(k, item) ==
    IF Contains(k.items, item)
    THEN Ret(TRUE, [k EXCEPT !.weight = @ + item.weight,
                             !.volume = @ + item.volume,
                             !.value = @ - item.value,
                             !.items = ListRemove(@, item),
                             !.all_items = IF Contains(@, item) THEN @ ELSE Append(@, item)])
    ELSE Ret(FALSE, [k EXCEPT !.weight = @ + item.weight])

\* remove_item, the value left as it was
remove_item_value_drift(k, item) ==
    IF Contains(k.items, item)
    THEN Ret(TRUE, [k EXCEPT !.weight = @ + item.weight,
                             !.volume = @ + item.volume,
                             !.items = ListRemove(@, item),
                             !.all_items = IF Contains(@, item) THEN @ ELSE Append(@, item)])
    ELSE Ret(FALSE, k)

remove_item(k, item) ==
    IF Contains(k.items, item)
    THEN \* item_to_remove is the first entry of items equal to item: the same record
         Ret(TRUE, [k EXCEPT !.weight = @ + item.weight,
                             !.volume = @ + item.volume,
                             !.value = @ - item.value,
                             !.items = ListRemove(@, item),
                             !.all_items = IF Contains(@, item) THEN @ ELSE Append(@, item)])
    ELSE Ret(FALSE, k)

can_swap(k, inside_item, another_item) ==
    IF ~InKnapsack(k, inside_item) \/ InKnapsack(k, another_item)
    THEN FALSE
    ELSE LET new_weight == k.weight + inside_item.weight
             new_volume == k.volume + inside_item.volume
         IN  IF another_item.weight <= new_weight /\ another_item.volume <= new_volume
             THEN k.value < (k.value - inside_item.value + another_item.value)
             ELSE FALSE

evaluate_swap(k, item, another_item) == can_swap(k, item, another_item)

swap(k, item, another_item) ==
    IF can_swap(k, item, another_item)
    THEN Ret(TRUE, add_item(remove_item(k, item).k, another_item).k)
    ELSE Ret(FALSE, k)

-----------------------------------------------------------------------------
(* Knapsack.execute_movement *)

\* lines 128-130: every item of remove_items is in the knapsack
removes_selected(k, m) ==
    \A i \in 1..Len(m.remove_items) : InKnapsack(k, m.remove_items[i])

\* line 134: the items that remain after the removals
temp_items(k, m) == SelectSeq(k.items, LAMBDA it : ~Contains(m.remove_items, it))

\* lines 146-152: an item listed twice in add_items
duplicate_adds(m) ==
    \E i, j \in 1..Len(m.add_items) : i < j /\ m.add_items[i] = m.add_items[j]

\* adds_fit, the last item of add_items not tested against the capacity
RECURSIVE adds_fit_last_unchecked(_, _, _, _, _)
adds_fit_last_unchecked(k, temp, adds, temp_weight, temp_volume) ==
    IF adds = <<>> THEN "ok"
    ELSE LET item == Head(adds)
         IN  IF Contains(temp, item) THEN "add_in_remaining"
             ELSE IF Contains(k.items, item) THEN "add_in_knapsack"
             ELSE IF Len(adds) > 1 /\ (item.weight > temp_weight \/ item.volume > temp_volume)
             THEN "add_does_not_fit"
             ELSE adds_fit_last_unchecked(k, temp, Tail(adds),
                                          temp_weight - item.weight,
                                          temp_volume - item.volume)

\* lines 156-168: add_items walked in order against the simulated capacity;
\* the result names the return statement taken, or is "ok"
RECURSIVE adds_fit(_, _, _, _, _)
adds_fit(k, temp, adds, temp_weight, temp_volume) ==
    IF adds = <<>> THEN "ok"
    ELSE LET item == Head(adds)
         IN  IF Contains(temp, item) THEN "add_in_remaining"
             ELSE IF Contains(k.items, item) THEN "add_in_knapsack"
             ELSE IF item.weight > temp_weight \/ item.volume > temp_volume
             THEN "add_does_not_fit"
             ELSE adds_fit(k, temp, Tail(adds),
                           temp_weight - item.weight, temp_volume - item.volume)

\* lines 128-168: the validation that precedes any change
validation(k, m) ==
    IF ~removes_selected(k, m) THEN "remove_not_selected"
    ELSE IF duplicate_adds(m) THEN "duplicate_add"
    ELSE LET temp == temp_items(k, m)
         IN  adds_fit(k, temp, m.add_items,
                      k.initial_weight - SumWeight(temp),
                      k.initial_volume - SumVolume(temp))

validate_movement(k, m) == validation(k, m) = "ok"

\* lines 175-176
RECURSIVE remove_all(_, _)
remove_all(k, removes) ==
    IF removes = <<>> THEN k
    ELSE remove_all(remove_item(k, Head(removes)).k, Tail(removes))

\* lines 184-186: the items added so far are taken out again
RECURSIVE rollback_added(_, _)
rollback_added(k, added_items) ==
    IF added_items = <<>> THEN k
    ELSE rollback_added(IF Contains(k.items, Head(added_items))
                        THEN remove_item(k, Head(added_items)).k ELSE k,
                        Tail(added_items))

\* lines 188-192: the removed items are put back with add_item
RECURSIVE restore_removed(_, _)
restore_removed(k, removes) ==
    IF removes = <<>> THEN k
    ELSE restore_removed(IF ~Contains(k.items, Head(removes))
                         THEN add_item(k, Head(removes)).k ELSE k,
                         Tail(removes))

\* lines 202-223: the removed items are put back, by hand when add_item refuses
RECURSIVE restore_removed_by_hand(_, _)
restore_removed_by_hand(k, removes) ==
    IF removes = <<>> THEN k
    ELSE LET removed_item == Head(removes)
             r == add_item(k, removed_item)
             k1 == IF Contains(k.items, removed_item) THEN k
                   ELSE IF r.ok THEN r.k
                   ELSE [k EXCEPT !.items = Append(@, removed_item),
                                  !.weight = @ - removed_item.weight,
                                  !.volume = @ - removed_item.volume,
                                  !.value = @ + removed_item.value,
                                  !.all_items = ListRemove(@, removed_item)]
         IN  restore_removed_by_hand(k1, Tail(removes))

\* lines 179-238: the additions, each one double-checked, with the rollbacks
RECURSIVE add_all(_, _, _, _)
add_all(k, m, adds, added_items) ==
    IF adds = <<>> THEN Ret(TRUE, k)
    ELSE LET item == Head(adds)
         IN  IF ~can_add_item(k, item)
             THEN Ret(FALSE, restore_removed(rollback_added(k, added_items),
                                             m.remove_items))
             ELSE IF Contains(k.items, item)
             THEN Ret(FALSE, restore_removed_by_hand(rollback_added(k, added_items),
                                                     m.remove_items))
             ELSE LET r == add_item(k, item)
                  IN  IF r.ok
                      THEN add_all(r.k, m, Tail(adds), Append(added_items, item))
                      ELSE Ret(FALSE, restore_removed(rollback_added(r.k, added_items),
                                                      m.remove_items))

\* execute_movement, the additions not validated before the removals are made
execute_movement_unvalidated(k, m) ==
    IF ~removes_selected(k, m) THEN Ret(FALSE, k)
    ELSE add_all(remove_all(cleanup_all_items(k), m.remove_items), m, m.add_items, <<>>)

execute_movement(k, m) ==
    IF ~validate_movement(k, m) THEN Ret(FALSE, k)
    ELSE add_all(remove_all(cleanup_all_items(k), m.remove_items), m, m.add_items, <<>>)

-----------------------------------------------------------------------------
(* TabuList *)

\* TabuList.append, the newest entry leaving when the list is full
TabuAppend_evicts_newest(list, size, element) ==
    IF Len(list) = size THEN Append(SubSeq(list, 1, size - 1), element)
    ELSE Append(list, element)

\* TabuList.append: the oldest entry leaves when the list is full
TabuAppend(list, size, element) ==
    IF Len(list) = size THEN Append(Tail(list), element) ELSE Append(list, element)

-----------------------------------------------------------------------------
(* Orderings *)

\* every order a shuffle can leave a list in
Perms(list) ==
    LET n == Len(list)
    IN  {[i \in 1..n |-> list[f[i]]] :
            f \in {g \in [1..n -> 1..n] : \A a, b \in 1..n : a # b => g[a] # g[b]}}

\* Item.ratio, value / (weight + volume), compared without dividing
RatioGreater(a, b) ==
    a.value * (b.weight + b.volume) > b.value * (a.weight + a.volume)

DeltaGreater(a, b) == movement_avaliation(a) > movement_avaliation(b)

\* key(a) > key(b), for the two sort keys in use
KeyGreater(key, a, b) ==
    IF key = "ratio" THEN RatioGreater(a, b) ELSE DeltaGreater(a, b)

\* sorted(list, key, reverse=True) is stable: x goes after the entries whose key
\* is at least its own
RECURSIVE InsertDesc(_, _, _)
InsertDesc(sorted, x, key) ==
    IF sorted = <<>> THEN <<x>>
    ELSE IF KeyGreater(key, x, Head(sorted)) THEN <<x>> \o sorted
    ELSE <<Head(sorted)>> \o InsertDesc(Tail(sorted), x, key)

RECURSIVE SortDesc(_, _)
SortDesc(list, key) ==
    IF list = <<>> THEN <<>>
    ELSE InsertDesc(SortDesc(SubSeq(list, 1, Len(list) - 1), key), list[Len(list)], key)

sorted_items(list) == SortDesc(list, "ratio")

\* sort_moves, the list left in the order generated
sort_moves_unsorted(moves) == moves

\* tabu.py lines 90-91
sort_moves(moves) == SortDesc(moves, "movement_avaliation")

-----------------------------------------------------------------------------
(* neighborhood.all_neighborhood *)

\* lines 22-32: items are evicted in the order `order` until their costs reach
\* the candidate's; the Movement is emitted when they do
RECURSIVE evictions(_, _, _, _, _, _)
evictions(item, order, i, to_remove, weight_to_lose, volume_to_lose) ==
    IF (volume_to_lose > 0 \/ weight_to_lose > 0) /\ i <= Len(order)
    THEN LET solution_item == order[i]
             removed == Append(to_remove, solution_item)
             w == weight_to_lose - solution_item.weight
             v == volume_to_lose - solution_item.volume
         IN  (IF w <= 0 /\ v <= 0 THEN <<Movement(<<item>>, removed)>> ELSE <<>>)
             \o evictions(item, order, i + 1, removed, w, v)
    ELSE <<>>

\* lines 40-44
RECURSIVE swaps_of(_, _, _)
swaps_of(k, item, inside) ==
    IF inside = <<>> THEN <<>>
    ELSE (IF can_swap(k, Head(inside), item)
          THEN <<Movement(<<item>>, <<Head(inside)>>)>> ELSE <<>>)
         \o swaps_of(k, item, Tail(inside))

\* lines 10-44: the Movements of one candidate item, items shuffled to `shuffled`
\* and evicted in the order `order`
moves_for_item(k, item, shuffled, order) ==
    (IF ~can_add_item(k, item)
     THEN evictions(item, order, 1, <<>>, item.weight, item.volume) ELSE <<>>)
    \o (IF can_add_item(k, item) THEN <<Movement(<<item>>, <<>>)>> ELSE <<>>)
    \o swaps_of(k, item, shuffled)

\* lines 9-44: what the loop over the candidates can leave: the final order
\* of items and the Movements gathered
RECURSIVE all_neighborhood_loop(_, _, _)
all_neighborhood_loop(k, candidates, items_now) ==
    IF candidates = <<>> THEN {[items |-> items_now, moves |-> <<>>]}
    ELSE UNION { UNION { { [items |-> t.items,
                            moves |-> moves_for_item(k, Head(candidates), shuffled, order)
                                      \o t.moves] :
                           t \in all_neighborhood_loop(k, Tail(candidates), shuffled) } :
                         order \in Perms(k.items) } :
                 shuffled \in Perms(k.items) }

\* every (Knapsack, neighborhood) a call of all_neighborhood can leave
all_neighborhood(k) ==
    UNION { { [k |-> [k EXCEPT !.all_items = shuffled_all, !.items = t.items],
               moves |-> t.moves] :
              t \in all_neighborhood_loop(k, shuffled_all, k.items) } :
            shuffled_all \in Perms(k.all_items) }

-----------------------------------------------------------------------------
(* neighborhood.first_improving_neighborhood *)

\* evaluate_swap returns can_swap's bool, which Python compares as 0 or 1
AsInt(b) == IF b THEN 1 ELSE 0

\* lines 50-63: `pairs` are the (candidate, selected) pairs still to visit
RECURSIVE first_improving_loop(_, _, _)
first_improving_loop(k, pairs, neighborhood) ==
    IF pairs = <<>> THEN neighborhood
    ELSE LET item == Head(pairs)[1]
             solution_item == Head(pairs)[2]
         IN  IF can_swap(k, solution_item, item)
             THEN LET new_value == AsInt(evaluate_swap(k, solution_item, item))
                      movement == Movement(<<item>>, <<solution_item>>)
                  IN  IF new_value > k.value
                      THEN Append(neighborhood, movement)
                      ELSE first_improving_loop(k, Tail(pairs),
                                                Append(neighborhood, movement))
             ELSE first_improving_loop(k, Tail(pairs), neighborhood)

RECURSIVE PairsOf(_, _)
PairsOf(outer, inner) ==
    IF outer = <<>> THEN <<>>
    ELSE [i \in 1..Len(inner) |-> <<Head(outer), inner[i]>>] \o PairsOf(Tail(outer), inner)

\* first_improving_neighborhood, the first swap found applied to the Knapsack
first_improving_neighborhood_applying(k) ==
    LET moves == first_improving_loop(
                     k, PairsOf(sorted_items(k.all_items), sorted_items(k.items)), <<>>)
    IN  { [k |-> IF moves = <<>> THEN k ELSE execute_movement(k, moves[1]).k,
           moves |-> moves] }

first_improving_neighborhood(k) ==
    { [k |-> k,
       moves |-> first_improving_loop(
                     k, PairsOf(sorted_items(k.all_items), sorted_items(k.items)), <<>>)] }

-----------------------------------------------------------------------------
(* neighborhood.genetic_algorithm_neighborhood *)

NoGA == [population |-> <<>>, new_population |-> <<>>, attempts |-> 0, generation |-> 0]

\* lines 91, 96 and 137
AttemptsPerMember == 10
max_attempts == PopulationSize * AttemptsPerMember
elite_size == IF (PopulationSize * 2) \div 10 >= 1 THEN (PopulationSize * 2) \div 10 ELSE 1

\* lines 145-162: the Movements one attempt of _initialize_population can append
init_proposals(k) ==
    {Movement(<<x>>, <<>>) : x \in {y \in ToSet(k.all_items) : can_add_item(k, y)}}
    \cup {Movement(<<>>, <<y>>) : y \in {z \in ToSet(k.items) : InKnapsack(k, z)}}
    \cup {Movement(<<pr[1]>>, <<pr[2]>>) :
            pr \in {q \in ToSet(k.all_items) \X ToSet(k.items) :
                      InKnapsack(k, q[2]) /\ can_swap(k, q[2], q[1])}}

\* lines 143-162: some outcome of random() and choice() appends nothing
init_attempt_can_fail(k) ==
    \/ k.all_items = <<>>
    \/ k.items = <<>>
    \/ \E x \in ToSet(k.all_items) : ~can_add_item(k, x)
    \/ \E x \in ToSet(k.all_items), y \in ToSet(k.items) : ~can_swap(k, y, x)

\* lines 165-166
RECURSIVE pad_with_empty(_)
pad_with_empty(population) ==
    IF Len(population) < PopulationSize
    THEN pad_with_empty(Append(population, Movement(<<>>, <<>>)))
    ELSE population

\* lines 171-174: the fittest of a random sample of min(3, len) members
tournament_size == 3
tournament_selection(population) ==
    LET n == Len(population)
        size == IF tournament_size < n THEN tournament_size ELSE n
    IN  { population[i] :
            i \in { j \in 1..n :
                      \E sample \in SUBSET (1..n) :
                          /\ Cardinality(sample) = size
                          /\ j \in sample
                          /\ \A l \in sample :
                                movement_avaliation(population[j])
                                    >= movement_avaliation(population[l]) } }

\* lines 194-204: the first of each group of equal items
RECURSIVE seen_list(_, _)
seen_list(list, seen) ==
    IF list = <<>> THEN seen
    ELSE seen_list(Tail(list), IF Contains(seen, Head(list)) THEN seen
                               ELSE Append(seen, Head(list)))

\* lines 177-209: each parent's lists are taken or not
crossover(parent1, parent2) ==
    { LET add_items == seen_list((IF c[1] THEN parent1.add_items ELSE <<>>)
                                 \o (IF c[2] THEN parent2.add_items ELSE <<>>), <<>>)
          remove_items == seen_list((IF c[3] THEN parent1.remove_items ELSE <<>>)
                                    \o (IF c[4] THEN parent2.remove_items ELSE <<>>), <<>>)
      IN  Movement(SelectSeq(add_items, LAMBDA item : ~Contains(remove_items, item)),
                   remove_items) :
      c \in [1..4 -> BOOLEAN] }

DropAt(list, i) == SubSeq(list, 1, i - 1) \o SubSeq(list, i + 1, Len(list))

\* lines 217-223
mutate_add(m, k) ==
    {m} \cup { IF Contains(m.add_items, item) THEN m
               ELSE Movement(Append(m.add_items, item),
                             SelectSeq(m.remove_items, LAMBDA r : r # item)) :
               item \in ToSet(k.all_items) }

\* lines 225-231
mutate_remove(m, k) ==
    {m} \cup { IF Contains(m.remove_items, item) THEN m
               ELSE Movement(SelectSeq(m.add_items, LAMBDA a : a # item),
                             Append(m.remove_items, item)) :
               item \in ToSet(k.items) }

\* lines 234-235
mutate_drop_add(m) ==
    {m} \cup { Movement(DropAt(m.add_items, i), m.remove_items) : i \in 1..Len(m.add_items) }

\* lines 237-238
mutate_drop_remove(m) ==
    {m} \cup { Movement(m.add_items, DropAt(m.remove_items, i)) :
               i \in 1..Len(m.remove_items) }

\* lines 212-240: every Movement _mutate can return
mutate(movement, k) ==
    UNION { UNION { UNION { mutate_drop_remove(m3) : m3 \in mutate_drop_add(m2) } :
                    m2 \in mutate_remove(m1, k) } :
            m1 \in mutate_add(movement, k) }

\* lines 263-270: all_items, then the add_items not yet among them
RECURSIVE temp_all_items(_, _)
temp_all_items(all, adds) ==
    IF adds = <<>> THEN all
    ELSE temp_all_items(IF Contains(all, Head(adds)) THEN all ELSE Append(all, Head(adds)),
                        Tail(adds))

\* lines 294-314: add_items checked in order with the temporary knapsack's can_add_item
RECURSIVE valid_adds(_, _, _)
valid_adds(temp_knapsack, temp_all, adds) ==
    IF adds = <<>> THEN TRUE
    ELSE LET item == Head(adds)
         IN  IF ~Contains(temp_all, item) THEN FALSE
             ELSE IF ~can_add_item(temp_knapsack, item) THEN FALSE
             ELSE valid_adds([temp_knapsack EXCEPT !.items = Append(@, item),
                                                   !.weight = @ - item.weight,
                                                   !.volume = @ - item.volume,
                                                   !.value = @ + item.value],
                             temp_all, Tail(adds))

\* lines 243-316: the temporary knapsack holds only the remaining items that have
\* an equal entry in temp_all_items, and only their costs are deducted
is_valid_movement(movement, k) ==
    IF ~removes_selected(k, movement) THEN FALSE
    ELSE LET temp == temp_items(k, movement)
             temp_all == temp_all_items(k.all_items, movement.add_items)
             found == SelectSeq(temp, LAMBDA it : Contains(temp_all, it))
             temp_knapsack ==
                 [Knapsack(k.initial_weight, k.initial_volume, temp_all)
                    EXCEPT !.items = found,
                           !.weight = @ - SumWeight(found),
                           !.volume = @ - SumVolume(found),
                           !.value = SumValue(found)]
         IN  valid_adds(temp_knapsack, temp_all, movement.add_items)

\* lines 99-111: every child one attempt of a generation can produce
children(population, k) ==
    UNION { UNION { LET crossed == crossover(parent1, parent2) \cup {parent1}
                    IN  crossed \cup UNION { mutate(child, k) : child \in crossed } :
                    parent2 \in tournament_selection(population) } :
            parent1 \in tournament_selection(population) }

\* lines 139-166: the populations _initialize_population can return; the loop
\* stops short of the size only when attempts can append nothing
RECURSIVE initialize_population(_, _)
initialize_population(population, k) ==
    IF Len(population) >= PopulationSize THEN {population}
    ELSE (IF init_attempt_can_fail(k) \/ init_proposals(k) = {}
          THEN {pad_with_empty(population)} ELSE {})
         \cup UNION { initialize_population(Append(population, movement), k) :
                      movement \in init_proposals(k) }

\* lines 97-115: the new populations the offspring loop can leave; it stops short
\* of the size only when attempts can produce a child that is not valid
RECURSIVE offspring(_, _, _)
offspring(new_population, population, k) ==
    IF Len(new_population) >= PopulationSize THEN {new_population}
    ELSE LET born == children(population, k)
             valid == {c \in born : is_valid_movement(c, k)}
         IN  (IF valid # born \/ valid = {} THEN {new_population} ELSE {})
             \cup UNION { offspring(Append(new_population, child), population, k) :
                          child \in valid }

\* lines 118-119: elite members fill what is missing, one choice per place
RECURSIVE fill_from_elite(_, _)
fill_from_elite(new_population, population) ==
    IF Len(new_population) < PopulationSize /\ Len(population) > 0
    THEN UNION { fill_from_elite(Append(new_population, population[i]), population) :
                 i \in 1..(IF elite_size < Len(population) THEN elite_size
                           ELSE Len(population)) }
    ELSE {new_population}

\* lines 83-121: one generation
generation(population, k) ==
    LET sorted == sort_moves(population)
    IN  UNION { fill_from_elite(new_population, sorted) :
                new_population \in offspring(SubSeq(sorted, 1, elite_size), sorted, k) }

RECURSIVE evolve(_, _, _)
evolve(populations, k, g) ==
    IF g >= Generations THEN populations
    ELSE evolve(UNION { generation(population, k) : population \in populations }, k, g + 1)

\* lines 66-125: every (Knapsack, population) one call can return; the lists
\* shuffled are copies, so the Knapsack is the one passed
genetic_algorithm_neighborhood(k) ==
    { [k |-> k, moves |-> sort_moves(population)] :
      population \in evolve(initialize_population(<<>>, k), k, 0) }

-----------------------------------------------------------------------------
(* Problem instances: capacities and the item list read from a data file *)

Instances ==
    { [weight |-> 10, volume |-> 10,
       all_items |-> <<Item("A", 6, 5, 5), Item("B", 5, 5, 5), Item("C", 4, 3, 3)>>],
      [weight |-> 7, volume |-> 6,
       all_items |-> <<Item("X", 6, 5, 5), Item("Y", 5, 4, 2), Item("Z", 4, 2, 4)>>] }

-----------------------------------------------------------------------------
(* The Knapsack's public operations, called in any order before optimize *)

\* the record of a call: its name, its result, the return taken when it is refused,
\* and the Knapsack before it
Call(op, why, r) == [op |-> op, why |-> why, ok |-> r.ok, pre |-> knapsack]

Init ==
    /\ \E inst \in Instances :
          /\ knapsack = Knapsack(inst.weight, inst.volume, inst.all_items)
          /\ universe = ToSet(inst.all_items)
    /\ tabu_list = <<>>
    /\ tabu_size = TabuSize
    /\ appended = <<>>
    /\ pc = "idle"
    /\ neighborhood_function = "none"
    /\ sorted_moves = <<>>
    /\ best_solution = 0
    /\ best_solution_items = <<>>
    /\ iter_counter = 0
    /\ initial_value = 0
    /\ started_empty = FALSE
    /\ live_max = 0
    /\ ga = NoGA
    /\ last = [op |-> "new", why |-> "ok", ok |-> TRUE, pre |-> <<>>]

AddItem ==
    /\ pc = "idle"
    /\ \E item \in universe :
          LET r == add_item(knapsack, item)
          IN  /\ knapsack' = r.k
              /\ last' = Call("add_item", "", r)
    /\ UNCHANGED <<pc, universe, dvars, ga>>

RemoveItem ==
    /\ pc = "idle"
    /\ \E item \in universe :
          LET r == remove_item(knapsack, item)
          IN  /\ knapsack' = r.k
              /\ last' = Call("remove_item", "", r)
    /\ UNCHANGED <<pc, universe, dvars, ga>>

Swap ==
    /\ pc = "idle"
    /\ \E item \in universe, another_item \in universe :
          LET r == swap(knapsack, item, another_item)
          IN  /\ knapsack' = r.k
              /\ last' = Call("swap", "", r)
    /\ UNCHANGED <<pc, universe, dvars, ga>>

ExecuteMovement ==
    /\ pc = "idle"
    /\ \E adds \in BoundedSeq(universe, MaxMoveLen),
          removes \in BoundedSeq(universe, MaxMoveLen) :
          LET m == Movement(adds, removes)
              r == execute_movement(knapsack, m)
          IN  /\ knapsack' = r.k
              /\ last' = Call("execute_movement", validation(knapsack, m), r)
    /\ UNCHANGED <<pc, universe, dvars, ga>>

-----------------------------------------------------------------------------
(* main.random_add_solution and Knapsack.optimize *)

\* main.py lines 10-14: the items of the shuffled copy are added when they fit
RECURSIVE random_add_solution(_, _)
random_add_solution(k, shuffled) ==
    IF shuffled = <<>> THEN k
    ELSE random_add_solution(IF can_add_item(k, Head(shuffled))
                             THEN add_item(k, Head(shuffled)).k ELSE k,
                             Tail(shuffled))

Generators == {"all_neighborhood", "first_improving_neighborhood"}

\* every (Knapsack, neighborhood) a call of the generator can leave
Neighborhood(f, k) ==
    IF f = "all_neighborhood" THEN all_neighborhood(k)
    ELSE IF f = "first_improving_neighborhood" THEN first_improving_neighborhood(k)
    ELSE genetic_algorithm_neighborhood(k)

\* knapsack.py lines 39-42: the initial solution is built and its value kept
Optimize ==
    /\ pc = "idle"
    /\ \E f \in Generators, shuffled \in Perms(knapsack.all_items) :
          /\ neighborhood_function' = f
          /\ knapsack' = random_add_solution(knapsack, shuffled)
    /\ initial_value' = knapsack'.value
    /\ started_empty' = (knapsack.items = <<>>)
    /\ pc' = "tabu_search"
    /\ last' = [op |-> "optimize", why |-> "", ok |-> TRUE, pre |-> knapsack]
    /\ UNCHANGED <<universe, tabu_list, tvars, sorted_moves, best_solution,
                   best_solution_items, iter_counter, live_max, ga>>

-----------------------------------------------------------------------------
(* TabuSearch.__call__ *)

\* tabu.py lines 35 and 79: for each tabu entry whose reverse() is among the
\* moves, list.remove takes out the first move equal to that reverse()
RECURSIVE tabu_filter(_, _)
tabu_filter(moves, tabus) ==
    IF tabus = <<>> THEN moves
    ELSE tabu_filter(IF Contains(moves, reverse(Head(tabus)))
                     THEN ListRemove(moves, reverse(Head(tabus))) ELSE moves,
                     Tail(tabus))

\* tabu.py line 63: reduce keeps x when it is strictly better, else takes y
RECURSIVE reduce_best(_, _)
reduce_best(x, rest) ==
    IF rest = <<>> THEN x
    ELSE reduce_best(IF movement_avaliation(x) > movement_avaliation(Head(rest))
                     THEN x ELSE Head(rest),
                     Tail(rest))

best_tabu_of(tabus) == reduce_best(Head(tabus), Tail(tabus))

\* improves, no value ever taken as a new best
improves_never(actual_solution, best) == FALSE

\* improves, the comparison turned around
improves_reversed(actual_solution, best) == actual_solution < best

\* tabu.py lines 54 and 66: a new best is a strictly larger value
improves(actual_solution, best) == actual_solution > best

Max(a, b) == IF a >= b THEN a ELSE b

\* tabu.py line 43: the iterations the time budget allows
IterBound ==
    IF neighborhood_function = "genetic_algorithm_neighborhood" THEN MaxIterGA ELSE MaxIter

Step(op, move, ok) ==
    [op |-> op, arg |-> move, ok |-> ok, pre |-> knapsack,
     best |-> best_solution, best_items |-> best_solution_items, tabu |-> tabu_list]

\* tabu.py lines 32-41
TabuSearchStart ==
    /\ pc = "tabu_search"
    /\ \E out \in Neighborhood(neighborhood_function, knapsack) :
          /\ knapsack' = out.k
          /\ sorted_moves' = tabu_filter(sort_moves(out.moves), tabu_list)
    /\ best_solution' = knapsack.value
    /\ best_solution_items' = knapsack'.items
    /\ live_max' = knapsack.value
    /\ pc' = "searching"
    /\ last' = Step("start", <<>>, TRUE)
    /\ UNCHANGED <<universe, tabu_list, tvars, started_empty, neighborhood_function,
                   iter_counter, initial_value, ga>>

\* tabu.py lines 43-61 and 77-79: the best remaining candidate is tried; a
\* refused candidate is dropped and the loop continues without regenerating
IterateCandidate ==
    /\ pc = "searching"
    /\ iter_counter < IterBound
    /\ sorted_moves # <<>>
    /\ LET candidate_move == Head(sorted_moves)
           actual_solution == knapsack.value + movement_avaliation(candidate_move)
           r == execute_movement(knapsack, candidate_move)
       IN  /\ last' = Step("candidate", candidate_move, r.ok)
           /\ IF r.ok
              THEN /\ tabu_list' = TabuAppend(tabu_list, tabu_size, reverse(candidate_move))
                   /\ appended' = Append(appended, reverse(candidate_move))
                   /\ IF improves(actual_solution, best_solution)
                      THEN /\ best_solution' = actual_solution
                           /\ best_solution_items' = r.k.items
                      ELSE UNCHANGED <<best_solution, best_solution_items>>
                   /\ \E out \in Neighborhood(neighborhood_function, r.k) :
                         /\ knapsack' = out.k
                         /\ sorted_moves' = tabu_filter(sort_moves(out.moves), tabu_list')
              ELSE /\ knapsack' = r.k
                   /\ sorted_moves' = Tail(sorted_moves)
                   /\ UNCHANGED <<tabu_list, appended, best_solution, best_solution_items>>
    /\ iter_counter' = iter_counter + 1
    /\ live_max' = Max(live_max, knapsack'.value)
    /\ UNCHANGED <<pc, universe, tabu_size, started_empty, neighborhood_function,
                   initial_value, ga>>

\* tabu.py lines 62-79: no candidate is left, the best tabu entry is tried
\* when its delta is positive
IterateAspiration ==
    /\ pc = "searching"
    /\ iter_counter < IterBound
    /\ sorted_moves = <<>>
    /\ tabu_list # <<>>
    /\ LET best_tabu == best_tabu_of(tabu_list)
           positive == movement_avaliation(best_tabu) > 0
           actual_solution == knapsack.value + movement_avaliation(best_tabu)
           r == IF positive THEN execute_movement(knapsack, best_tabu)
                ELSE Ret(FALSE, knapsack)
       IN  /\ last' = Step(IF positive THEN "aspiration" ELSE "no_aspiration",
                           best_tabu, r.ok)
           /\ IF positive /\ improves(actual_solution, best_solution)
              THEN /\ best_solution' = actual_solution
                   /\ best_solution_items' = knapsack.items
              ELSE UNCHANGED <<best_solution, best_solution_items>>
           /\ \E out \in Neighborhood(neighborhood_function, r.k) :
                 /\ knapsack' = out.k
                 /\ sorted_moves' = tabu_filter(sort_moves(out.moves), tabu_list)
    /\ iter_counter' = iter_counter + 1
    /\ live_max' = Max(live_max, knapsack'.value)
    /\ UNCHANGED <<pc, universe, tabu_list, tvars, started_empty, neighborhood_function,
                   initial_value, ga>>

\* tabu.py line 63: reduce over an empty tabu list raises TypeError, which
\* leaves __call__ and optimize
IterateRaises ==
    /\ pc = "searching"
    /\ iter_counter < IterBound
    /\ sorted_moves = <<>>
    /\ tabu_list = <<>>
    /\ iter_counter' = iter_counter + 1
    /\ pc' = "raised"
    /\ last' = Step("raise", <<>>, FALSE)
    /\ UNCHANGED <<knapsack, universe, tabu_list, tvars, started_empty,
                   neighborhood_function, sorted_moves, best_solution, best_solution_items, initial_value,
                   live_max, ga>>

\* tabu.py lines 43 and 81-88: the time budget is spent, the best recorded
\* value and items are put into the knapsack
Terminate ==
    /\ pc = "searching"
    /\ knapsack' = [knapsack EXCEPT !.value = best_solution,
                                    !.items = best_solution_items]
    /\ pc' = "terminated"
    /\ last' = Step("terminate", <<>>, TRUE)
    /\ UNCHANGED <<universe, dvars, ga>>

-----------------------------------------------------------------------------
(* Knapsack.optimize, after the heuristic returns *)

\* knapsack.py lines 54-62: the first of each group of equal items
RECURSIVE unique_items(_, _)
unique_items(list, seen) ==
    IF list = <<>> THEN <<>>
    ELSE IF Head(list) \in seen THEN unique_items(Tail(list), seen)
    ELSE <<Head(list)>> \o unique_items(Tail(list), seen \cup {Head(list)})

\* knapsack.py lines 47-115
validate_final_solution(k) ==
    LET kept == unique_items(k.items, {})
        total_weight == SumWeight(kept)
        total_volume == SumVolume(kept)
        total_value == SumValue(kept)
        violated == total_weight > k.initial_weight \/ total_volume > k.initial_volume
        k1 == [k EXCEPT !.items = kept,
                        !.value = IF violated THEN 0 ELSE total_value,
                        !.weight = k.initial_weight - total_weight,
                        !.volume = k.initial_volume - total_volume]
        k2 == cleanup_all_items(k1)
    IN  [k2 EXCEPT !.all_items = SelectSeq(@, LAMBDA i : i \notin ToSet(k2.items))]

Validate ==
    /\ pc = "terminated"
    /\ knapsack' = validate_final_solution(knapsack)
    /\ pc' = "done"
    /\ last' = Step("validate", <<>>, TRUE)
    /\ UNCHANGED <<universe, dvars, ga>>

Next ==
    \/ AddItem \/ RemoveItem \/ Swap \/ ExecuteMovement
    \/ Optimize \/ TabuSearchStart
    \/ IterateCandidate \/ IterateAspiration \/ IterateRaises
    \/ Terminate \/ Validate

Spec == Init /\ [][Next]_vars

-----------------------------------------------------------------------------
(* optimize(genetic_algorithm_neighborhood) on a Knapsack as constructed *)

\* knapsack.py lines 39-42, the generator passed being genetic_algorithm_neighborhood
OptimizeGA ==
    /\ pc = "idle"
    /\ \E shuffled \in Perms(knapsack.all_items) :
          knapsack' = random_add_solution(knapsack, shuffled)
    /\ neighborhood_function' = "genetic_algorithm_neighborhood"
    /\ initial_value' = knapsack'.value
    /\ started_empty' = (knapsack.items = <<>>)
    /\ pc' = "tabu_search"
    /\ last' = [op |-> "optimize", why |-> "", ok |-> TRUE, pre |-> knapsack]
    /\ UNCHANGED <<universe, tabu_list, tvars, sorted_moves, best_solution,
                   best_solution_items, iter_counter, live_max, ga>>

\* main.py: a Knapsack as constructed, its TabuList of any size up to MaxTabuSize
InitSearchGA ==
    /\ \E inst \in Instances :
          /\ knapsack = Knapsack(inst.weight, inst.volume, inst.all_items)
          /\ universe = ToSet(inst.all_items)
    /\ tabu_list = <<>>
    /\ tabu_size \in 1..MaxTabuSize
    /\ appended = <<>>
    /\ pc = "idle"
    /\ neighborhood_function = "none"
    /\ sorted_moves = <<>>
    /\ best_solution = 0
    /\ best_solution_items = <<>>
    /\ iter_counter = 0
    /\ initial_value = 0
    /\ started_empty = FALSE
    /\ live_max = 0
    /\ ga = NoGA
    /\ last = [op |-> "new", why |-> "ok", ok |-> TRUE, pre |-> <<>>]

NextSearchGA ==
    \/ OptimizeGA \/ TabuSearchStart
    \/ IterateCandidate \/ IterateAspiration
    \/ Terminate \/ Validate

SpecSearchGA == InitSearchGA /\ [][NextSearchGA]_vars

-----------------------------------------------------------------------------
(* genetic_algorithm_neighborhood, called on a Knapsack the public operations left *)

\* how many attempts that append nothing can precede the next one
FailedBefore(can_fail) == IF can_fail THEN 0..(max_attempts - ga.attempts - 1) ELSE {0}

\* neighborhood.py lines 80 and 130-137
GAStart ==
    /\ pc = "idle"
    /\ pc' = "ga_init"
    /\ ga' = NoGA
    /\ last' = [op |-> "genetic_algorithm_neighborhood", why |-> "", ok |-> TRUE,
                pre |-> knapsack]
    /\ UNCHANGED <<knapsack, universe, dvars>>

\* lines 139-162: attempts that append nothing, then one that appends a Movement
GAInitPropose ==
    /\ pc = "ga_init"
    /\ Len(ga.population) < PopulationSize
    /\ ga.attempts < max_attempts
    /\ \E failed \in FailedBefore(init_attempt_can_fail(knapsack)),
          movement \in init_proposals(knapsack) :
          ga' = [ga EXCEPT !.population = Append(@, movement),
                           !.attempts = @ + failed + 1]
    /\ UNCHANGED <<knapsack, universe, dvars, pc, last>>

\* lines 139-168: the loop ends, full or with its attempts spent on outcomes that
\* append nothing, and the population is padded with empty Movements
GAInitPad ==
    /\ pc = "ga_init"
    /\ \/ Len(ga.population) >= PopulationSize
       \/ ga.attempts >= max_attempts
       \/ init_attempt_can_fail(knapsack)
    /\ ga' = [ga EXCEPT !.population = pad_with_empty(@), !.attempts = 0]
    /\ pc' = "ga_generation"
    /\ UNCHANGED <<knapsack, universe, dvars, last>>

\* lines 83-96: the population is sorted and its elite kept
GAGeneration ==
    /\ pc = "ga_generation"
    /\ ga.generation < Generations
    /\ LET sorted == sort_moves(ga.population)
       IN  ga' = [ga EXCEPT !.population = sorted,
                            !.new_population = SubSeq(sorted, 1, elite_size),
                            !.attempts = 0]
    /\ pc' = "ga_offspring"
    /\ UNCHANGED <<knapsack, universe, dvars, last>>

\* lines 97-115: attempts whose child is not valid, then one whose child is
GAOffspring ==
    /\ pc = "ga_offspring"
    /\ Len(ga.new_population) < PopulationSize
    /\ ga.attempts < max_attempts
    /\ LET born == children(ga.population, knapsack)
       IN  \E failed \in FailedBefore(\E c \in born : ~is_valid_movement(c, knapsack)),
              child \in {c \in born : is_valid_movement(c, knapsack)} :
              ga' = [ga EXCEPT !.new_population = Append(@, child),
                               !.attempts = @ + failed + 1]
    /\ UNCHANGED <<knapsack, universe, dvars, pc, last>>

\* lines 118-119: copies of elite members fill what is missing
RECURSIVE fill_with_elite(_, _)
fill_with_elite(new_population, population) ==
    IF Len(new_population) < PopulationSize /\ Len(population) > 0
    THEN UNION { fill_with_elite(Append(new_population, population[i]), population) :
                 i \in 1..(IF elite_size < Len(population) THEN elite_size
                           ELSE Len(population)) }
    ELSE {new_population}

\* lines 97-121: the loop ends, full or with its attempts spent on children that
\* are not valid; the new population is filled and replaces the old one
GAFill ==
    /\ pc = "ga_offspring"
    /\ \/ Len(ga.new_population) >= PopulationSize
       \/ ga.attempts >= max_attempts
       \/ \E c \in children(ga.population, knapsack) : ~is_valid_movement(c, knapsack)
    /\ \E filled \in fill_with_elite(ga.new_population, ga.population) :
          ga' = [ga EXCEPT !.population = filled, !.new_population = <<>>,
                           !.attempts = 0, !.generation = @ + 1]
    /\ pc' = "ga_generation"
    /\ UNCHANGED <<knapsack, universe, dvars, last>>

\* lines 124-125: the last population is sorted and returned
GAReturn ==
    /\ pc = "ga_generation"
    /\ ga.generation >= Generations
    /\ ga' = [ga EXCEPT !.population = sort_moves(@)]
    /\ pc' = "ga_returned"
    /\ UNCHANGED <<knapsack, universe, dvars, last>>

NextGA ==
    \/ AddItem \/ RemoveItem \/ Swap \/ ExecuteMovement
    \/ GAStart \/ GAInitPropose \/ GAInitPad
    \/ GAGeneration \/ GAOffspring \/ GAFill \/ GAReturn

SpecGA == Init /\ [][NextGA]_vars

-----------------------------------------------------------------------------
(* A TabuList of its own: TabuList(size), then append calls *)

\* the Movements appended: one item added or one item removed
TabuElements ==
    {Movement(<<x>>, <<>>) : x \in universe} \cup {Movement(<<>>, <<x>>) : x \in universe}

\* tabu.py lines 7-9
InitTabuList ==
    /\ \E inst \in Instances :
          /\ knapsack = Knapsack(inst.weight, inst.volume, inst.all_items)
          /\ universe = ToSet(inst.all_items)
    /\ tabu_list = <<>>
    /\ tabu_size \in 1..MaxTabuSize
    /\ appended = <<>>
    /\ pc = "tabu_list"
    /\ neighborhood_function = "none"
    /\ sorted_moves = <<>>
    /\ best_solution = 0
    /\ best_solution_items = <<>>
    /\ iter_counter = 0
    /\ initial_value = 0
    /\ started_empty = FALSE
    /\ live_max = 0
    /\ ga = NoGA
    /\ last = [op |-> "new", why |-> "ok", ok |-> TRUE, pre |-> <<>>]

\* tabu.py lines 11-15
TabuListAppend ==
    /\ pc = "tabu_list"
    /\ Len(appended) < MaxAppends
    /\ \E element \in TabuElements :
          /\ tabu_list' = TabuAppend(tabu_list, tabu_size, element)
          /\ appended' = Append(appended, element)
    /\ UNCHANGED <<knapsack, universe, pc, tabu_size, started_empty,
                   neighborhood_function, sorted_moves,
                   best_solution, best_solution_items, iter_counter, initial_value,
                   live_max, ga, last>>

NextTabuList == TabuListAppend

SpecTabuList == InitTabuList /\ [][NextTabuList]_vars

-----------------------------------------------------------------------------
(* Properties *)

\* the states reached by add_item, remove_item, swap and execute_movement calls
\* alone, made directly or by the search before it terminates
ReachedByCalls == pc \in {"idle", "tabu_search", "searching", "raised"}

NoDuplicates(list) == \A i, j \in 1..Len(list) : i # j => list[i] # list[j]

\* C1: the remaining weight and volume are never negative and the selected
\* items never exceed a capacity, in the states reached by the calls and for
\* the items the search leaves in the knapsack when it terminates.
C1_CapacityRespected ==
    /\ knapsack.weight >= 0
    /\ knapsack.volume >= 0
    /\ SumWeight(knapsack.items) <= knapsack.initial_weight
    /\ SumVolume(knapsack.items) <= knapsack.initial_volume

C1_Witness ==
    /\ pc = "terminated"
    /\ Len(knapsack.items) = 2
    /\ SumWeight(knapsack.items) = knapsack.initial_weight

\* C2: in every state reached by the calls, each remaining capacity is the
\* initial capacity less the costs of the selected items.
C2_RemainingIsInitialLessSelected ==
    ReachedByCalls =>
        /\ knapsack.weight = knapsack.initial_weight - SumWeight(knapsack.items)
        /\ knapsack.volume = knapsack.initial_volume - SumVolume(knapsack.items)

C2_Witness ==
    /\ last.op = "remove_item" /\ last.ok
    /\ knapsack.items # <<>>
    /\ knapsack.weight # knapsack.volume

\* C3: in every state reached by the calls, the tracked value is the sum of
\* the values of the selected items.
C3_ValueIsSumOfSelected ==
    ReachedByCalls => knapsack.value = SumValue(knapsack.items)

C3_Witness ==
    /\ last.op = "swap" /\ last.ok
    /\ Len(knapsack.items) = 2
    /\ knapsack.value > last.pre.value

C5_SelectedAndAvailablePartition ==
    ReachedByCalls =>
        /\ ToSet(knapsack.items) \cap ToSet(knapsack.all_items) = {}
        /\ ToSet(knapsack.items) \cup ToSet(knapsack.all_items) = universe

C5_Witness ==
    /\ last.op = "execute_movement" /\ last.ok
    /\ Len(knapsack.items) = 2
    /\ Len(last.pre.items) = 2
    /\ ToSet(knapsack.items) # ToSet(last.pre.items)

\* C6: in every state reached by the calls, no two selected items are equal.
C6_NoDuplicateSelected ==
    ReachedByCalls => NoDuplicates(knapsack.items)

C6_Witness ==
    /\ last.op = "add_item" /\ ~last.ok
    /\ knapsack.items # <<>>
    /\ \E i \in 1..Len(knapsack.items) :
          /\ knapsack.items[i].weight <= knapsack.weight
          /\ knapsack.items[i].volume <= knapsack.volume

\* C8: when the search terminates, the value it leaves in the knapsack is the
\* sum of the values of the items it leaves there.
C8_TerminatedValueIsSumOfItems ==
    pc = "terminated" => knapsack.value = SumValue(knapsack.items)

\* C9: the recorded best value is at least the initial value and at least
\* every value the live knapsack has had during the search, it never decreases
\* from one iteration to the next, and it is the value left at termination.
C9_BestDominatesEveryLiveValue ==
    pc \in {"searching", "terminated"} =>
        /\ best_solution >= initial_value
        /\ best_solution >= live_max
        /\ last.op \in {"candidate", "aspiration", "no_aspiration"} =>
              best_solution >= last.best
        /\ pc = "terminated" => knapsack.value = best_solution

C9_Witness ==
    /\ pc = "terminated"
    /\ iter_counter > 0
    /\ last.pre.value < knapsack.value
    /\ initial_value < knapsack.value

\* C10: a candidate applied on the normal selection path never undoes a move
\* whose reverse() is still in the tabu list, that is, it is never itself an
\* entry of the tabu list.
C10_NoAppliedCandidateUndoesTabuMove ==
    (last.op = "candidate" /\ last.ok) => ~Contains(last.tabu, last.arg)

\* C7: every Movement genetic_algorithm_neighborhood returns is one that
\* execute_movement accepts on the state it was generated for.
C7_GAReturnsOnlyApplicableMovements ==
    pc = "ga_returned" =>
        \A i \in 1..Len(ga.population) : execute_movement(knapsack, ga.population[i]).ok

\* C11: an iteration that finds no candidate left and no tabu entry with a
\* positive delta, the empty tabu list included, raises no error and leaves the
\* value, the capacities, the selected items and the tabu list as they were.
C11_NothingToTryIsNotAnError ==
    last.op \in {"no_aspiration", "raise"} =>
        /\ pc = "searching"
        /\ knapsack.value = last.pre.value
        /\ knapsack.weight = last.pre.weight
        /\ knapsack.volume = last.pre.volume
        /\ ToSet(knapsack.items) = ToSet(last.pre.items)
        /\ tabu_list = last.tabu

\* the Movements over the instance's items, each list within the bound
Movements ==
    {Movement(adds, removes) : adds \in BoundedSeq(universe, MaxMoveLen),
                               removes \in BoundedSeq(universe, MaxMoveLen)}

TotalsMatchSelected(k) ==
    /\ k.value = SumValue(k.items)
    /\ k.weight = k.initial_weight - SumWeight(k.items)
    /\ k.volume = k.initial_volume - SumVolume(k.items)

SameSolution(k1, k2) ==
    /\ k1.value = k2.value
    /\ k1.weight = k2.weight
    /\ k1.volume = k2.volume
    /\ ToSet(k1.items) = ToSet(k2.items)

\* what C12 asks of one Movement m accepted on the Knapsack k
ReverseRestores(k, m) ==
    LET done == execute_movement(k, m)
        undone == execute_movement(done.k, reverse(m))
    IN  done.ok =>
            /\ undone.ok => SameSolution(undone.k, k)
            /\ ~undone.ok => undone.k = done.k
            /\ TotalsMatchSelected(k) => TotalsMatchSelected(undone.k)

LastOf(list, n) ==
    SubSeq(list, (IF Len(list) > n THEN Len(list) - n ELSE 0) + 1, Len(list))

\* C13: a TabuList of size K >= 1 never holds more than K entries; it holds the
\* last K elements appended, in the order they were appended; and once K+1
\* pairwise different Movements have been appended the first is no longer a
\* member while the last K are.
C13_TabuListIsBoundedFIFO ==
    /\ tabu_size >= 1
    /\ Len(tabu_list) <= tabu_size
    /\ tabu_list = LastOf(appended, tabu_size)
    /\ (Len(appended) = tabu_size + 1 /\ NoDuplicates(appended)) =>
          /\ ~Contains(tabu_list, appended[1])
          /\ \A i \in 2..(tabu_size + 1) : Contains(tabu_list, appended[i])

C13_Witness ==
    /\ pc = "tabu_list"
    /\ tabu_size = 3
    /\ Len(appended) = tabu_size + 1
    /\ NoDuplicates(appended)
    /\ Len(tabu_list) = tabu_size

\* the instance of C14: capacities 10 and 10, A(6, 5, 5), B(5, 5, 5), C(4, 3, 3)
InstanceABC ==
    /\ universe = {Item("A", 6, 5, 5), Item("B", 5, 5, 5), Item("C", 4, 3, 3)}
    /\ knapsack.initial_weight = 10
    /\ knapsack.initial_volume = 10

\* the search has run an iteration and terminated with a value of at least 10
ReportsAtLeastTen == (pc = "terminated" /\ iter_counter >= 1) => knapsack.value >= 10

\* C14: on the instance A, B, C with capacities 10 and 10, a run of optimize
\* that starts with nothing selected raises no error, and when the search has
\* run an iteration and terminates the value it reports is at least 10.
C14_RunOnABCReportsAtLeastTen ==
    (InstanceABC /\ started_empty) => (pc # "raised" /\ ReportsAtLeastTen)

\* some selected item and some available item satisfy can_swap
HasSwap(k) ==
    \E inside \in ToSet(k.items), outside \in ToSet(k.all_items) : can_swap(k, inside, outside)

IsSwap(m) == Len(m.add_items) = 1 /\ Len(m.remove_items) = 1

\* C15: with first_improving_neighborhood and an initial solution that has a
\* pair satisfying can_swap, the first iteration that is run applies a swap
\* that raises the value, and from then on the recorded best value, which is
\* the value left at termination, is larger than the initial solution's value.
\* (A first iteration run on an initial solution without such a pair raises.)
C15_FirstImprovingAppliesAnImprovingSwap ==
    neighborhood_function = "first_improving_neighborhood" =>
        /\ (iter_counter = 1 /\ last.op \in {"candidate", "raise"} /\ HasSwap(last.pre)) =>
              /\ last.op = "candidate" /\ last.ok
              /\ IsSwap(last.arg)
              /\ knapsack.value > last.pre.value
              /\ last.pre.value = initial_value
        /\ (pc \in {"searching", "terminated"} /\ iter_counter >= 1) =>
              best_solution > initial_value
        /\ (pc = "terminated" /\ iter_counter >= 1) =>
              knapsack.value > initial_value

C15_Witness ==
    /\ neighborhood_function = "first_improving_neighborhood"
    /\ pc = "terminated"
    /\ iter_counter = 1
    /\ knapsack.value > initial_value
    /\ last.pre.value = knapsack.value
    /\ Len(knapsack.items) = 2

\* C16: after a complete run of optimize, final bookkeeping included, no item
\* is both selected and available and the selected and available items
\* together are the items the Knapsack was constructed with.
C16_PartitionAfterOptimize ==
    pc = "done" =>
        /\ ToSet(knapsack.items) \cap ToSet(knapsack.all_items) = {}
        /\ ToSet(knapsack.items) \cup ToSet(knapsack.all_items) = universe

\* the items handed to add_item and remove_item: those of the instance and one
\* that is not of the instance
ProbeItems == universe \cup {Item("Q", 1, 1, 1)}

\* the item fits in both dimensions and no equal item is selected
FitsAndNotSelected(k, item) ==
    /\ item.weight <= k.weight
    /\ item.volume <= k.volume
    /\ \A i \in 1..Len(k.items) : k.items[i] # item

\* C17: in every reachable state, add_item succeeds exactly when
\* the item fits in both dimensions and no equal item is selected (which is
\* can_add_item); a refused add_item, and a remove_item of an item with no equal
\* entry among the selected items, return failure and change nothing.
C17_RefusedAddAndRemoveChangeNothing ==
    /\ (last.op \in {"add_item", "remove_item"} /\ ~last.ok) => knapsack = last.pre
    /\ \A item \in ProbeItems :
          /\ can_add_item(knapsack, item) = FitsAndNotSelected(knapsack, item)
          /\ add_item(knapsack, item).ok = FitsAndNotSelected(knapsack, item)
          /\ ~add_item(knapsack, item).ok => add_item(knapsack, item).k = knapsack
          /\ ~Contains(knapsack.items, item) =>
                /\ ~remove_item(knapsack, item).ok
                /\ remove_item(knapsack, item).k = knapsack

C17_Witness ==
    /\ last.op = "remove_item" /\ ~last.ok
    /\ knapsack.items # <<>>
    /\ knapsack.all_items # <<>>
    /\ \E item \in universe : ~add_item(knapsack, item).ok /\ ~Contains(knapsack.items, item)

\* inside is selected, outside is not, outside fits in what is left once inside
\* is out, and outside is worth more than inside
SwapImproves(k, inside, outside) ==
    /\ \E i \in 1..Len(k.items) : k.items[i] = inside
    /\ \A i \in 1..Len(k.items) : k.items[i] # outside
    /\ outside.weight <= k.weight + inside.weight
    /\ outside.volume <= k.volume + inside.volume
    /\ outside.value > inside.value

\* what C18 asks of one pair of items on the Knapsack k
SwapAsClaimed(k, inside, outside) ==
    /\ can_swap(k, inside, outside) = SwapImproves(k, inside, outside)
    /\ can_swap(k, inside, outside) =>
          LET r == execute_movement(k, Movement(<<outside>>, <<inside>>))
          IN  r.ok /\ r.k.value > k.value

\* C18: in every reachable state, can_swap(inside, outside) is true exactly
\* when inside is selected, outside is not selected, outside fits in the
\* remaining capacities plus inside's costs and outside is worth more than
\* inside; and when it is true, execute_movement of the Movement adding outside
\* and removing inside succeeds and raises the value.
C18_CanSwapIsExactAndExecutable ==
    \A inside \in ProbeItems, outside \in ProbeItems :
        SwapAsClaimed(knapsack, inside, outside)

\* the same in the states reached by the calls and after a complete optimize
C18_WhereCapacitiesAreTracked ==
    (ReachedByCalls \/ pc = "done") => C18_CanSwapIsExactAndExecutable

\* C19: for every Movement m, reverse(reverse(m)) equals m under Movement
\* equality and the delta of reverse(m) is the negated delta of m; so it is
\* for the Movements the search reverses into its tabu list.
C19_ReverseIsAnInvolution ==
    /\ \A m \in Movements :
          /\ reverse(reverse(m)) = m
          /\ movement_avaliation(reverse(m)) = 0 - movement_avaliation(m)
    /\ \A i \in 1..Len(tabu_list) :
          /\ reverse(reverse(tabu_list[i])) = tabu_list[i]
          /\ movement_avaliation(reverse(tabu_list[i])) = 0 - movement_avaliation(tabu_list[i])

C19_Witness ==
    /\ last.op = "candidate" /\ last.ok
    /\ last.arg.add_items # <<>> /\ last.arg.remove_items # <<>>
    /\ movement_avaliation(last.arg) # 0
    /\ tabu_list[Len(tabu_list)] = reverse(last.arg)
    /\ reverse(tabu_list[Len(tabu_list)]) = last.arg

\* C20: once the search has filtered the ranked candidates against the tabu
\* list, no candidate left has its reverse() in the tabu list.
C20_NoCandidateReversesATabuEntry ==
    pc = "searching" =>
        \A i \in 1..Len(sorted_moves) : ~Contains(tabu_list, reverse(sorted_moves[i]))

\* C21: in every reachable state and for every Movement, _is_valid_movement
\* accepts the Movement exactly when execute_movement's validation does.
C21_ValidityFilterAgreesWithExecutor ==
    \A m \in Movements : is_valid_movement(m, knapsack) = validate_movement(knapsack, m)

\* the reference walk over the items to add: each is absent from the items
\* that remain after the removals and fits the running capacity
RECURSIVE ReferenceWalk(_, _, _, _)
ReferenceWalk(remaining, adds, weight, volume) ==
    IF adds = <<>> THEN TRUE
    ELSE /\ \A i \in 1..Len(remaining) : remaining[i] # Head(adds)
         /\ Head(adds).weight <= weight
         /\ Head(adds).volume <= volume
         /\ ReferenceWalk(remaining, Tail(adds),
                          weight - Head(adds).weight, volume - Head(adds).volume)

\* the reference rule: the items to remove are selected, the items to add are
\* pairwise different, and the walk over them succeeds from the capacity left
\* by the items that remain
ReferenceAccepts(k, m) ==
    LET remaining == SelectSeq(k.items, LAMBDA it :
                                  \A i \in 1..Len(m.remove_items) : m.remove_items[i] # it)
    IN  /\ \A i \in 1..Len(m.remove_items) : \E j \in 1..Len(k.items) :
              k.items[j] = m.remove_items[i]
        /\ NoDuplicates(m.add_items)
        /\ ReferenceWalk(remaining, m.add_items,
                         k.initial_weight - SumWeight(remaining),
                         k.initial_volume - SumVolume(remaining))

\* C22: in every reachable state, execute_movement accepts a Movement exactly
\* when the reference rule accepts it; an item that is selected and is also
\* among the items to remove is not refused as an item to add.
C22_ExecutorAcceptsAsTheReferenceRule ==
    \A m \in Movements : execute_movement(knapsack, m).ok = ReferenceAccepts(knapsack, m)

\* the same for the Movements that add no selected item
C22_ExceptReAddedItems ==
    \A m \in Movements :
        (\A i \in 1..Len(m.add_items) : ~Contains(knapsack.items, m.add_items[i])) =>
            execute_movement(knapsack, m).ok = ReferenceAccepts(knapsack, m)

\* the feasible solutions of the instance: the lists of different items that
\* fit, as a Knapsack whose remaining capacities are those the items leave
Solutions ==
    { [knapsack EXCEPT !.items = items,
                       !.all_items = SelectSeq(knapsack.all_items \o knapsack.items,
                                               LAMBDA it : ~Contains(items, it)),
                       !.weight = knapsack.initial_weight - SumWeight(items),
                       !.volume = knapsack.initial_volume - SumVolume(items),
                       !.value = SumValue(items)] :
      items \in { l \in BoundedSeq(universe, Cardinality(universe)) :
                    /\ NoDuplicates(l)
                    /\ SumWeight(l) <= knapsack.initial_weight
                    /\ SumVolume(l) <= knapsack.initial_volume } }

\* the Movements with m's remove_items and m's add_items in another order
Reordered(m) == {Movement(adds, m.remove_items) : adds \in Perms(m.add_items)}

\* execute_movement decides differently on two orders of the same add_items
OrderMatters(k) ==
    \E m \in Movements : \E other \in Reordered(m) :
        \/ validate_movement(k, m) # validate_movement(k, other)
        \/ execute_movement(k, m).ok # execute_movement(k, other).ok

\* C23, as the specification has it: some reachable state has two Movements
\* with the same remove_items and the same add_items in different orders of
\* which execute_movement refuses one and accepts the other.
C23_SomeStateIsOrderDependent ==
    \E k \in Solutions : OrderMatters(k)

\* C23, amended: in every reachable state, the state the search returns
\* included, two Movements with the same remove_items and the same add_items in
\* different orders are both accepted or both refused, by the validation and by
\* execute_movement as a whole; and the states the calls reach are among the
\* feasible solutions of the instance.
C23_OrderOfAddsDoesNotMatter ==
    /\ ~OrderMatters(knapsack)
    /\ ReachedByCalls =>
          \E k \in Solutions : k.items = knapsack.items /\ SameSolution(k, knapsack)

C23_Witness ==
    /\ last.op = "execute_movement" /\ last.ok
    /\ \E m \in Movements :
          /\ Len(m.add_items) = 2
          /\ execute_movement(last.pre, m).k = knapsack
          /\ execute_movement(last.pre, Movement(<<m.add_items[2], m.add_items[1]>>,
                                                 m.remove_items)).ok
    /\ \E m \in Movements :
          /\ Len(m.add_items) = 2
          /\ m.add_items[1] # m.add_items[2]
          /\ validation(last.pre, m) = "add_does_not_fit"
          /\ validation(last.pre, Movement(<<m.add_items[2], m.add_items[1]>>,
                                           m.remove_items)) = "add_does_not_fit"

\* the (available, selected) pairs that satisfy can_swap, in descending density
\* order, the available items outermost
SwapPairs(k) ==
    SelectSeq(PairsOf(sorted_items(k.all_items), sorted_items(k.items)),
              LAMBDA pair : can_swap(k, pair[2], pair[1]))

\* C24: in every reachable state first_improving_neighborhood returns the
\* first pair satisfying can_swap, as the only Movement of its list, when there
\* is such a pair, and an empty list when there is none; every Movement it
\* returns has a positive delta.
C24_FirstImprovingReturnsTheFirstSwapOnly ==
    \A out \in first_improving_neighborhood(knapsack) :
        /\ out.moves = IF SwapPairs(knapsack) = <<>> THEN <<>>
                       ELSE <<Movement(<<Head(SwapPairs(knapsack))[1]>>,
                                       <<Head(SwapPairs(knapsack))[2]>>)>>
        /\ \A i \in 1..Len(out.moves) : movement_avaliation(out.moves[i]) > 0

\* what does hold: the list is every pair satisfying can_swap, in that order
C24_ReturnsEverySwap ==
    \A out \in first_improving_neighborhood(knapsack) :
        /\ out.moves = [i \in 1..Len(SwapPairs(knapsack)) |->
                           Movement(<<SwapPairs(knapsack)[i][1]>>,
                                    <<SwapPairs(knapsack)[i][2]>>)]
        /\ \A i \in 1..Len(out.moves) : movement_avaliation(out.moves[i]) > 0

\* an iteration of the search that tries a candidate
CandidateStep == pc = "searching" /\ last'.op = "candidate" /\ iter_counter' = iter_counter + 1

\* C25: in an iteration where candidates remain, the candidate tried is one of
\* the remaining ranked list with the highest delta; if it is applied, its
\* reverse() becomes the newest tabu entry, the oldest leaving when the list is
\* full; if it is refused, the knapsack, the tabu list and the recorded best
\* are unchanged.
C25_BestCandidateTriedAndRecorded ==
    [][CandidateStep =>
          /\ sorted_moves # <<>>
          /\ Contains(sorted_moves, last'.arg)
          /\ \A i \in 1..Len(sorted_moves) :
                movement_avaliation(last'.arg) >= movement_avaliation(sorted_moves[i])
          /\ last'.ok =>
                /\ execute_movement(knapsack, last'.arg).ok
                /\ SameSolution(knapsack', execute_movement(knapsack, last'.arg).k)
                /\ tabu_list' = (IF Len(tabu_list) = tabu_size THEN Tail(tabu_list)
                                 ELSE tabu_list) \o <<reverse(last'.arg)>>
          /\ ~last'.ok =>
                /\ knapsack' = knapsack
                /\ tabu_list' = tabu_list
                /\ best_solution' = best_solution
                /\ best_solution_items' = best_solution_items]_vars

\* a candidate is refused in a run where an earlier one was applied and its
\* reverse() pushed the oldest entry out of a full tabu list
C25_Witness ==
    /\ last.op = "candidate" /\ ~last.ok
    /\ Len(appended) > tabu_size
    /\ Len(tabu_list) = tabu_size
    /\ tabu_list = SubSeq(appended, Len(appended) - tabu_size + 1, Len(appended))
    /\ knapsack = last.pre

\* C26: when no candidate is left, the move considered is a tabu entry of the
\* highest delta and it is tried only if that delta is strictly positive; when
\* it is applied the live value strictly increases; when it is refused, or not
\* tried, the solution and the recorded best are unchanged.
C26_AspirationAppliesOnlyAnImprovingEntry ==
    last.op \in {"aspiration", "no_aspiration"} =>
        /\ Contains(last.tabu, last.arg)
        /\ \A i \in 1..Len(last.tabu) :
              movement_avaliation(last.arg) >= movement_avaliation(last.tabu[i])
        /\ (last.op = "aspiration") = (movement_avaliation(last.arg) > 0)
        /\ last.op = "aspiration" /\ last.ok =>
              /\ SameSolution(knapsack, execute_movement(last.pre, last.arg).k)
              /\ knapsack.value > last.pre.value
        /\ ~last.ok =>
              /\ SameSolution(knapsack, last.pre)
              /\ best_solution = last.best
              /\ best_solution_items = last.best_items

\* the same without the recorded best of a refused entry
C26_ExceptTheRecordedBest ==
    last.op \in {"aspiration", "no_aspiration"} =>
        /\ Contains(last.tabu, last.arg)
        /\ \A i \in 1..Len(last.tabu) :
              movement_avaliation(last.arg) >= movement_avaliation(last.tabu[i])
        /\ (last.op = "aspiration") = (movement_avaliation(last.arg) > 0)
        /\ last.op = "aspiration" /\ last.ok =>
              /\ SameSolution(knapsack, execute_movement(last.pre, last.arg).k)
              /\ knapsack.value > last.pre.value
        /\ ~last.ok => SameSolution(knapsack, last.pre)

\* C27: when the search returns, the tracked value, weight and volume are the
\* ones recomputed from the restored items, so that the recomputation and the
\* repair at the end of optimize leave value, capacities and items as they are.
C27_NothingToReconcileAtTermination ==
    pc = "terminated" =>
        /\ knapsack.value = SumValue(knapsack.items)
        /\ knapsack.weight = knapsack.initial_weight - SumWeight(knapsack.items)
        /\ knapsack.volume = knapsack.initial_volume - SumVolume(knapsack.items)
        /\ LET final == validate_final_solution(knapsack)
           IN  /\ final.items = knapsack.items
               /\ final.value = knapsack.value
               /\ final.weight = knapsack.weight
               /\ final.volume = knapsack.volume

\* knapsack.py lines 358-361: Movement.__eq__ compares the two lists, which are
\* equal when they hold equal items in the same order
Movement_eq(move, another_move) ==
    /\ move.add_items = another_move.add_items
    /\ move.remove_items = another_move.remove_items

\* tabu.py lines 17-21: TabuList.__contains__
TabuList_contains(tabus, move) == \E i \in 1..Len(tabus) : Movement_eq(move, tabus[i])

NoRepeat(list) == Cardinality(ToSet(list)) = Len(list)

\* two Movements that add the same items and remove the same items
SameItems(m1, m2) ==
    /\ NoRepeat(m1.add_items) /\ NoRepeat(m1.remove_items)
    /\ NoRepeat(m2.add_items) /\ NoRepeat(m2.remove_items)
    /\ ToSet(m1.add_items) = ToSet(m2.add_items)
    /\ ToSet(m1.remove_items) = ToSet(m2.remove_items)

\* C28: Movements that add the same items and remove the same items are equal
\* whatever the order of their lists, so that one is found in a tabu list
\* holding the other and is filtered out by the reverse() of the other's reverse().
C28_MovementEqualityIgnoresOrder ==
    \A m1, m2 \in Movements :
        SameItems(m1, m2) =>
            /\ Movement_eq(m1, m2)
            /\ TabuList_contains(<<m1>>, m2)
            /\ tabu_filter(<<m2>>, <<reverse(m1)>>) = <<>>

\* list2 is list1 in some order
Permuted(list1, list2) ==
    /\ Len(list1) = Len(list2)
    /\ \A x \in ToSet(list1) \cup ToSet(list2) :
          Cardinality({i \in 1..Len(list1) : list1[i] = x})
              = Cardinality({i \in 1..Len(list2) : list2[i] = x})

\* after is before, but for the order of its two item lists
ReadOnly(before, after) ==
    /\ Permuted(before.items, after.items)
    /\ Permuted(before.all_items, after.all_items)
    /\ after.value = before.value
    /\ after.weight = before.weight
    /\ after.volume = before.volume
    /\ after.initial_weight = before.initial_weight
    /\ after.initial_volume = before.initial_volume

\* C29: a call of all_neighborhood, first_improving_neighborhood or
\* genetic_algorithm_neighborhood leaves the selected items, the available
\* items, both capacities and the value as they were, but for the order of the
\* two lists; and the first call the search makes leaves the tabu list as it was.
C29_GeneratorsAreReadOnly ==
    /\ \A f \in Generators \cup {"genetic_algorithm_neighborhood"} :
          \A out \in Neighborhood(f, knapsack) : ReadOnly(knapsack, out.k)
    /\ last.op = "start" =>
          /\ ReadOnly(last.pre, knapsack)
          /\ tabu_list = last.tabu

C29_Witness ==
    /\ last.op = "start"
    /\ neighborhood_function = "all_neighborhood"
    /\ knapsack.items # <<>>
    /\ knapsack.all_items # last.pre.all_items
    /\ sorted_moves # <<>>
    /\ \E out \in genetic_algorithm_neighborhood(knapsack) : out.moves # sorted_moves

\* the removals of m give back at least what its one added item costs
EvictedCostsReach(m) ==
    /\ SumWeight(m.remove_items) >= m.add_items[1].weight
    /\ SumVolume(m.remove_items) >= m.add_items[1].volume

\* C30: every Movement all_neighborhood returns is accepted by execute_movement
\* on the Knapsack as the call leaves it, whatever the shuffles and the random
\* evictions; a Movement that removes items to add one is either a swap that
\* can_swap allows or one whose evicted items' costs reach the added item's in
\* weight and in volume.
C30_AllNeighborhoodMovesAreApplicable ==
    \A out \in all_neighborhood(knapsack) :
        \A i \in 1..Len(out.moves) :
            LET m == out.moves[i]
            IN  /\ Len(m.add_items) = 1
                /\ execute_movement(out.k, m).ok
                /\ execute_movement(knapsack, m).ok
                /\ m.remove_items # <<>> =>
                      \/ EvictedCostsReach(m)
                      \/ /\ Len(m.remove_items) = 1
                         /\ can_swap(knapsack, m.remove_items[1], m.add_items[1])

\* the same in the states where the tracked capacities are those of the items:
\* every state but the one the search returns before optimize recomputes them
C30_WhereCapacitiesAreTracked ==
    pc # "terminated" =>
        \A out \in all_neighborhood(knapsack) :
            \A i \in 1..Len(out.moves) :
                LET m == out.moves[i]
                IN  /\ Len(m.add_items) = 1
                    /\ execute_movement(out.k, m).ok
                    /\ m.remove_items # <<>> =>
                          \/ EvictedCostsReach(m)
                          \/ /\ Len(m.remove_items) = 1
                             /\ can_swap(knapsack, m.remove_items[1], m.add_items[1])

-----------------------------------------------------------------------------
(* The search once entered: the interpreter keeps executing __call__ *)

\* tabu.py lines 31-88: the steps of TabuSearch.__call__
Driver ==
    \/ TabuSearchStart
    \/ IterateCandidate \/ IterateAspiration \/ IterateRaises
    \/ Terminate

\* main.py lines 68-69: optimize is called on the Knapsack as constructed
NextSearch == Optimize \/ Driver \/ Validate

\* a call of __call__ under way generates its first neighbourhood, and the wall
\* clock advances: while the loop runs, the test of line 43 is eventually false
LiveSpec ==
    Init /\ [][NextSearch]_vars /\ WF_vars(TabuSearchStart) /\ WF_vars(Terminate)

\* C31: the search, once entered, always reaches the point where the time
\* budget is found spent and the best value and items are put back.
C31_DriverReachesTerminated == (pc = "tabu_search") ~> (pc = "terminated")

\* what holds: the search always leaves its loop, by the deadline or by the
\* TypeError of reduce over an empty tabu list
C31_DriverTerminatesOrRaises == (pc = "tabu_search") ~> (pc \in {"terminated", "raised"})

\* no step of the search follows the restoring of the best value and items
C31_NothingAppliedAfterTheDeadline ==
    [][pc = "terminated" => /\ pc' \in {"terminated", "done"}
                            /\ tabu_list' = tabu_list
                            /\ iter_counter' = iter_counter]_vars

====
